---- MODULE Spec2Model ----
EXTENDS Integers, Sequences, FiniteSets, Bags, TLC

(***************************************************************************)
(* Model of src/main.py: the Buff market watcher.  Floats are integers or *)
(* the IEEE specials "nan", "inf", "-inf".  None is the string "None".     *)
(***************************************************************************)

(* A Python float: [sp |-> "fin", n |-> integer value] or one of the   *)
(* specials nan, inf, -inf.  None is a value of the same shape.           *)
Fl(n) == [sp |-> "fin", n |-> n]

NaN == [sp |-> "nan", n |-> 0]

PosInf == [sp |-> "inf", n |-> 0]

NegInf == [sp |-> "-inf", n |-> 0]

None == [sp |-> "none", n |-> 0]

(* Python float comparison a < b, including nan and infinities. *)
PyLt(a, b) ==
  IF a.sp = "nan" \/ b.sp = "nan" THEN FALSE
  ELSE IF a.sp = "-inf" THEN b.sp # "-inf"
  ELSE IF a.sp = "inf" THEN FALSE
  ELSE IF b.sp = "inf" THEN TRUE
  ELSE IF b.sp = "-inf" THEN FALSE
  ELSE a.n < b.n

(* Python float comparison a <= b. *)
PyLe(a, b) == PyLt(a, b) \/ (a = b /\ a.sp # "nan")

(* Python builtin min over a non-empty list: keeps the first item, replaced *)
(* by a later item only when item < current.                              *)
RECURSIVE PyMinFrom(_, _)
PyMinFrom(acc, s) ==
  IF s = <<>> THEN acc
  ELSE PyMinFrom(IF PyLt(Head(s), acc) THEN Head(s) ELSE acc, Tail(s))

PyMin(s) == PyMinFrom(Head(s), Tail(s))

(* Python truthiness of an optional float (None and 0.0 are falsy). *)
PyTruthy(x) == x # None /\ x # Fl(0)

(***************************************************************************)
(* parse_listings.  A listing row is abstracted to what the code inspects: *)
(* whether it is a 'selling' row, whether data-goods-info is non-empty,    *)
(* whether the cleaned payload json-decodes, the decoded top-level type,   *)
(* whether 'sell_min_price' is a member of it, and the field's value.      *)
(* A value is [k |-> kind, v |-> float, bad |-> BOOL] with kind one of    *)
(* "num" (a JSON number), "str" (a JSON string spelling the float v, or   *)
(* none when bad),                                                         *)
(* "bool", "null", "obj" (object or array) and "bigint" (a JSON integer    *)
(* too large for a double).                                                *)
(***************************************************************************)

(* float(x) of the decoded field: [err |-> exception or "", f |-> float]. *)
FloatOf(val) ==
  CASE val.k = "num"    -> [err |-> "", f |-> val.v]
    [] val.k = "str"    -> IF val.bad THEN [err |-> "ValueError", f |-> None]
                           ELSE [err |-> "", f |-> val.v]
    [] val.k = "bool"   -> [err |-> "", f |-> val.v]
    [] val.k = "null"   -> [err |-> "TypeError", f |-> None]
    [] val.k = "obj"    -> [err |-> "TypeError", f |-> None]
    [] val.k = "bigint" -> [err |-> "OverflowError", f |-> None]

(* Outcome of one iteration of the row loop: offers appended, or raised.  *)
(* JSONDecodeError, ValueError and TypeError are caught (continue); the   *)
(* OverflowError of float() on a huge int and the RecursionError of a     *)
(* too deeply nested payload escape parse_listings.                       *)
RowResult(row) ==
  IF ~row.attr THEN [raised |-> FALSE, offers |-> <<>>]
  ELSE IF row.deep THEN [raised |-> TRUE, offers |-> <<>>]
  ELSE IF ~row.dec THEN [raised |-> FALSE, offers |-> <<>>]
  ELSE IF row.top # "dict" THEN [raised |-> FALSE, offers |-> <<>>]
  ELSE IF ~row.key THEN [raised |-> FALSE, offers |-> <<>>]
  ELSE LET f == FloatOf(row.val) IN
       IF f.err \in {"ValueError", "TypeError"} THEN [raised |-> FALSE, offers |-> <<>>]
       ELSE IF f.err = "OverflowError" THEN [raised |-> TRUE, offers |-> <<>>]
       ELSE [raised |-> FALSE, offers |-> <<f.f>>]

(* The loop over listings_table.find_all('tr', class_='selling'). *)
RECURSIVE ParseRows(_)
ParseRows(rows) ==
  IF rows = <<>> THEN [raised |-> FALSE, offers |-> <<>>]
  ELSE IF ~Head(rows).sel THEN ParseRows(Tail(rows))
  ELSE LET r == RowResult(Head(rows)) IN
       IF r.raised THEN r
       ELSE LET rest == ParseRows(Tail(rows)) IN
            IF rest.raised THEN rest
            ELSE [raised |-> FALSE, offers |-> r.offers \o rest.offers]

(* parse_listings(html): html is None / "" / a page with or without the   *)
(* table.list_tb element.                                                 *)
ParseListings(html) ==
  IF html.kind \in {"none", "empty"} THEN [raised |-> FALSE, offers |-> <<>>]
  ELSE IF ~html.table THEN [raised |-> FALSE, offers |-> <<>>]
  ELSE ParseRows(html.rows)


(* Rows and pages used as fetch results. *)
MkVal(k, v, bad) == [k |-> k, v |-> v, bad |-> bad]

NullV == MkVal("null", None, FALSE)

MkRow(sel, attr, dec, top, key, val) ==
  [sel |-> sel, attr |-> attr, dec |-> dec, top |-> top, key |-> key, val |-> val, deep |-> FALSE]

RowCorrupt == MkRow(TRUE, TRUE, FALSE, "dict", FALSE, NullV)

RowNoAttr == MkRow(TRUE, FALSE, FALSE, "dict", FALSE, NullV)

RowNoKey == MkRow(TRUE, TRUE, TRUE, "dict", FALSE, NullV)

RowListKey == MkRow(TRUE, TRUE, TRUE, "list", TRUE, MkVal("str", None, TRUE))

RowPrice(p) == MkRow(TRUE, TRUE, TRUE, "dict", TRUE, MkVal("num", Fl(p), FALSE))

RowStr(x) == MkRow(TRUE, TRUE, TRUE, "dict", TRUE, MkVal("str", x, FALSE))

RowVal(val) == MkRow(TRUE, TRUE, TRUE, "dict", TRUE, val)

RowBig == RowVal(MkVal("bigint", None, FALSE))

(* Rows whose payload nests deeper than the recursion limit (json.loads   *)
(* or _strip_recursive raise RecursionError), decodable or not.         *)
RowDeep == [RowPrice(80) EXCEPT !.deep = TRUE]

RowDeepCorrupt == [RowCorrupt EXCEPT !.deep = TRUE]

RowOther(p) == MkRow(FALSE, TRUE, TRUE, "dict", TRUE, MkVal("num", Fl(p), FALSE))

FetchFail == [kind |-> "none", table |-> FALSE, rows |-> <<>>]

NoTable == [kind |-> "page", table |-> FALSE, rows |-> <<RowPrice(95)>>]

Page(rows) == [kind |-> "page", table |-> TRUE, rows |-> rows]

(***************************************************************************)
(* main(): the monitor loop over items_data.                               *)
(***************************************************************************)

NumItems == 2

MaxClock == 5

Names == {"A", "B", "C"}

Thresholds == {Fl(60), Fl(100)}

MonitorPages ==
  { FetchFail, NoTable,
    Page(<<RowPrice(0)>>), Page(<<RowPrice(95)>>), Page(<<RowPrice(120)>>),
    Page(<<RowCorrupt, RowPrice(80), RowPrice(75)>>),
    Page(<<RowStr(NaN)>>), Page(<<RowBig>>), Page(<<RowDeep, RowPrice(75)>>) }

VARIABLES
  display_name,   \* items_data[i]["display_name"]
  alarm_price,    \* items_data[i]["alarm_price"]
  lowest_price,   \* items_data[i]["lowest_price"]
  last_updated,   \* items_data[i]["last_updated"]
  active_alarms,  \* active_alarms
  prices,         \* the loop's local prices (last parse result)
  pc,             \* "loop" (in the for loop), "sleep", "crashed"
  idx,            \* index of the next item of the for loop
  last,           \* index of the item most recently sampled (0: none)
  clock,          \* datetime.now(), advances with every fetch
  notifyCount,    \* play_alarm_sound() calls per item
  panel,          \* Active Alarms lines of the published layout
  published,      \* number of live.update calls
  page,           \* parser harness: input html
  parsed,         \* parser harness: parse_listings(html)
  tree,           \* strip harness: decoded JSON value
  stripped,       \* strip harness: _strip_recursive(tree)
  raw,            \* clean harness: data-goods-info string
  cleaned         \* clean harness: cleaned_str

mvars == <<display_name, alarm_price, lowest_price, last_updated, active_alarms,
           prices, pc, idx, last, clock, notifyCount, panel, published>>

pvars == <<page, parsed>>

svars == <<tree, stripped, raw, cleaned>>

vars == <<mvars, pvars, svars>>

(* generate_layout's Active Alarms panel: for each name in sorted(active)  *)
(* the first item with that display_name, shown when its lowest_price is   *)
(* truthy.                                                                 *)
AlarmPanel(names, lows, active) ==
  { <<n, lows[CHOOSE i \in 1..Len(names) : names[i] = n /\ \A j \in 1..(i-1) : names[j] # n]>> :
      n \in { m \in active :
                \E i \in 1..Len(names) :
                   names[i] = m /\ (\A j \in 1..(i-1) : names[j] # m) /\ PyTruthy(lows[i]) } }

(* Mutant: level-triggered notification. *)
AlarmUpdateNoEdge(active, name, lp, alarm) ==
  IF PyLe(lp, alarm) THEN [active |-> active \cup {name}, notify |-> 1]
  ELSE [active |-> active \ {name}, notify |-> 0]

(* Mutant: a clearing sample never removes the alarm. *)
AlarmUpdateNoClear(active, name, lp, alarm) ==
  IF PyLe(lp, alarm) /\ name \notin active THEN [active |-> active \cup {name}, notify |-> 1]
  ELSE [active |-> active, notify |-> 0]

(* Mutant: a clearing sample empties the whole set. *)
AlarmUpdateClearAll(active, name, lp, alarm) ==
  IF PyLe(lp, alarm)
  THEN IF name \notin active THEN [active |-> active \cup {name}, notify |-> 1]
       ELSE [active |-> active, notify |-> 0]
  ELSE [active |-> {}, notify |-> 0]

(* The alarm decision of the loop body: new active_alarms and whether     *)
(* play_alarm_sound() is called.                                          *)
AlarmUpdate(active, name, lp, alarm) ==
  LET isIn == name \in active IN
  IF PyLe(lp, alarm)
  THEN IF ~isIn THEN [active |-> active \cup {name}, notify |-> 1]
       ELSE [active |-> active, notify |-> 0]
  ELSE IF isIn THEN [active |-> active \ {name}, notify |-> 0]
       ELSE [active |-> active, notify |-> 0]

(* datetime.now() at clock value c. *)
Stamp(c) == [sp |-> "time", n |-> c]

(* Mutant: an empty sample blanks the stored price. *)
NewLowestBlank(old, ps) == IF Len(ps) > 0 THEN PyMin(ps) ELSE None

(* items_data[i]["lowest_price"] after a sample. *)
NewLowest(old, ps) == IF Len(ps) > 0 THEN PyMin(ps) ELSE old

(* main() before the while loop, with the configured items. *)
InitM ==
  /\ lowest_price = [i \in 1..NumItems |-> None]
  /\ last_updated = [i \in 1..NumItems |-> None]
  /\ active_alarms = {}
  /\ prices = <<>>
  /\ pc = "loop"
  /\ idx = 1
  /\ last = 0
  /\ clock = 0
  /\ notifyCount = [i \in 1..NumItems |-> 0]
  /\ panel = {}
  /\ published = 0

ParsedInit == [raised |-> FALSE, offers |-> <<>>, done |-> FALSE]

NumV == [t |-> "num", s |-> <<>>, keys |-> <<>>, vals |-> <<>>]

InitP == page = FetchFail /\ parsed = ParsedInit

InitS == tree = NumV /\ stripped = NumV /\ raw = <<>> /\ cleaned = <<>>

InitCommon ==
  /\ display_name \in [1..NumItems -> Names]
  /\ alarm_price \in [1..NumItems -> Thresholds]
  /\ InitM /\ InitP /\ InitS

Distinct == \A i, j \in 1..NumItems : i # j => display_name[i] # display_name[j]

(* Configurations as the data model requires them: unique names. *)
Init == InitCommon /\ Distinct

(* Any configuration load_config accepts. *)
InitDup == InitCommon

(* One iteration of the for loop: fetch_html, parse_listings, the update *)
(* of items_data/active_alarms, and live.update.  An exception escaping   *)
(* parse_listings ends main() (finally: driver.quit()).                   *)
SampleItem ==
  /\ pc = "loop"
  /\ clock < MaxClock
  /\ \E html \in MonitorPages :
       LET r == ParseListings(html) IN
       IF r.raised
       THEN /\ pc' = "crashed"
            /\ clock' = clock + 1
            /\ UNCHANGED <<display_name, alarm_price, lowest_price, last_updated,
                           active_alarms, prices, idx, last, notifyCount, panel, published>>
       ELSE LET ps == r.offers
                lp == NewLowest(lowest_price[idx], ps)
                upd == AlarmUpdate(active_alarms, display_name[idx], lp, alarm_price[idx])
                act == IF Len(ps) > 0 THEN upd.active ELSE active_alarms
                nt == IF Len(ps) > 0 THEN upd.notify ELSE 0
                lows == [lowest_price EXCEPT ![idx] = lp]
            IN
            /\ prices' = ps
            /\ lowest_price' = lows
            /\ last_updated' = IF Len(ps) > 0 THEN [last_updated EXCEPT ![idx] = Stamp(clock)]
                               ELSE last_updated
            /\ active_alarms' = act
            /\ notifyCount' = [notifyCount EXCEPT ![idx] = @ + nt]
            /\ panel' = AlarmPanel(display_name, lows, act)
            /\ published' = published + 1
            /\ clock' = clock + 1
            /\ last' = idx
            /\ IF idx < NumItems THEN idx' = idx + 1 /\ pc' = "loop"
               ELSE idx' = idx /\ pc' = "sleep"
            /\ UNCHANGED <<display_name, alarm_price>>
  /\ UNCHANGED <<pvars, svars>>

(* time.sleep(10) after the for loop, then the while loop restarts it. *)
Sleep ==
  /\ pc = "sleep"
  /\ pc' = "loop"
  /\ idx' = 1
  /\ UNCHANGED <<display_name, alarm_price, lowest_price, last_updated, active_alarms,
                 prices, last, clock, notifyCount, panel, published, pvars, svars>>

Next == SampleItem \/ Sleep

Spec == Init /\ [][Next]_vars

SpecDup == InitDup /\ [][Next]_vars


(***************************************************************************)
(* parse_listings applied to one page.                                     *)
(***************************************************************************)

MaxRows == 3

ParserRows ==
  { RowCorrupt, RowNoAttr, RowNoKey, RowListKey, RowPrice(80), RowPrice(75),
    RowStr(Fl(-5)), RowStr(NaN), RowStr(PosInf), RowVal(MkVal("str", None, TRUE)),
    RowVal(MkVal("bool", Fl(1), FALSE)), RowVal(NullV), RowBig, RowOther(10),
    RowDeep, RowDeepCorrupt }

EmptyHtml == [kind |-> "empty", table |-> FALSE, rows |-> <<>>]

ParserPages ==
  {FetchFail, EmptyHtml, NoTable}
    \cup { Page(rs) : rs \in UNION { [1..n -> ParserRows] : n \in 0..MaxRows } }

ParserInit ==
  /\ display_name = <<"A", "B">> /\ alarm_price = <<Fl(100), Fl(100)>>
  /\ InitM /\ InitS
  /\ page \in ParserPages /\ parsed = ParsedInit

Parse ==
  /\ ~parsed.done
  /\ LET r == ParseListings(page) IN
       parsed' = [raised |-> r.raised, offers |-> r.offers, done |-> TRUE]
  /\ UNCHANGED <<mvars, page, svars>>

ParserSpec == ParserInit /\ [][Parse]_vars

Range(sq) == {sq[i] : i \in DOMAIN sq}

BagOfSeq(sq) == [x \in Range(sq) |-> Cardinality({i \in DOMAIN sq : sq[i] = x})]

(* The claim's reading of a row: a selling row whose payload decodes to an *)
(* object with a sell_min_price that parses as a number.                  *)
ClaimOffer(row) ==
  /\ row.sel /\ row.attr /\ row.dec /\ row.top = "dict" /\ row.key
  /\ \/ row.val.k \in {"num", "bool", "bigint"}
     \/ row.val.k = "str" /\ ~row.val.bad

ClaimValue(row) == IF row.val.k = "bigint" THEN PosInf ELSE row.val.v

ExpectedOffers(html) ==
  IF html.kind # "page" \/ ~html.table THEN <<>>
  ELSE LET sel == SelectSeq(html.rows, ClaimOffer) IN
       [i \in 1..Len(sel) |-> ClaimValue(sel[i])]

(* C4 (as stated): parse_listings returns, without failing, exactly the   *)
(* multiset of parsable sell_min_price values of the selling rows; other  *)
(* rows contribute nothing and do not affect their siblings.              *)
C4_Orig ==
  parsed.done => (~parsed.raised /\ BagOfSeq(parsed.offers) = BagOfSeq(ExpectedOffers(page)))

(* C5 (as stated): every offer parse_listings emits is a finite,          *)
(* non-negative number.                                                   *)
C5_Orig ==
  (parsed.done /\ ~parsed.raised) =>
     \A i \in 1..Len(parsed.offers) :
        parsed.offers[i].sp = "fin" /\ parsed.offers[i].n >= 0

(***************************************************************************)
(* _strip_recursive and the cleaning of data-goods-info.  A decoded JSON  *)
(* value is [t |-> "str"/"num"/"list"/"dict", s |-> chars of a string,    *)
(* keys |-> key strings of a dict, vals |-> elements or dict values].      *)
(***************************************************************************)

(* Characters str.strip() removes: str.isspace() characters.  Those with  *)
(* no TLA+ escape are named tokens.                                       *)
WS == {" ", "\t", "\n", "\r", "\f", "VT", "FS", "GS", "RS", "US", "NEL", "NBSP",
       "OGHAM", "ENQUAD..HAIRSP", "LSEP", "PSEP", "NNBSP", "MMSP", "IDSP"}

RECURSIVE LStrip(_)
LStrip(str) == IF str # <<>> /\ Head(str) \in WS THEN LStrip(Tail(str)) ELSE str

RECURSIVE RStrip(_)
RStrip(str) ==
  IF str # <<>> /\ str[Len(str)] \in WS THEN RStrip(SubSeq(str, 1, Len(str) - 1)) ELSE str

(* str.strip() *)
PyStrip(str) == RStrip(LStrip(str))

StrV(str) == [t |-> "str", s |-> str, keys |-> <<>>, vals |-> <<>>]

(* {k: v for ...}: a repeated key keeps its first position, last value. *)
RECURSIVE BuildDict(_, _, _, _)
BuildDict(ks, vs, accK, accV) ==
  IF ks = <<>> THEN [t |-> "dict", s |-> <<>>, keys |-> accK, vals |-> accV]
  ELSE IF \E p \in 1..Len(accK) : accK[p] = Head(ks)
       THEN LET p == CHOOSE q \in 1..Len(accK) : accK[q] = Head(ks) IN
            BuildDict(Tail(ks), Tail(vs), accK, [accV EXCEPT ![p] = Head(vs)])
       ELSE BuildDict(Tail(ks), Tail(vs), Append(accK, Head(ks)), Append(accV, Head(vs)))

RECURSIVE StripRecursive(_)
StripRecursive(obj) ==
  IF obj.t = "dict"
  THEN BuildDict([i \in 1..Len(obj.keys) |-> PyStrip(obj.keys[i])],
                 [i \in 1..Len(obj.vals) |->
                    StripRecursive(IF obj.vals[i].t = "str" THEN StrV(PyStrip(obj.vals[i].s))
                                   ELSE obj.vals[i])],
                 <<>>, <<>>)
  ELSE IF obj.t = "list"
  THEN [obj EXCEPT !.vals = [i \in 1..Len(obj.vals) |-> StripRecursive(obj.vals[i])]]
  ELSE obj

DQ == "\""

QuotEntity == <<"&", "q", "u", "o", "t", ";">>

(* str.replace('&quot;', '"'): left to right, non-overlapping. *)
RECURSIVE ReplaceQuot(_)
ReplaceQuot(str) ==
  IF str = <<>> THEN <<>>
  ELSE IF Len(str) >= 6 /\ SubSeq(str, 1, 6) = QuotEntity
       THEN <<DQ>> \o ReplaceQuot(SubSeq(str, 7, Len(str)))
       ELSE <<Head(str)>> \o ReplaceQuot(Tail(str))

(* str.replace(';', '') *)
RemoveSemi(str) == SelectSeq(str, LAMBDA c : c # ";")

(* cleaned_str in parse_listings. *)
CleanGoodsInfo(str) == RemoveSemi(ReplaceQuot(str))

Strs == {<<>>, <<" ">>, <<"a">>, <<" ", "a">>, <<"a", " ">>, <<" ", "a", " ">>,
         <<"\t", "a">>, <<"a", "\n">>, <<"\r", "a", "\f">>}

KeyStrs == {<<"a">>, <<" ", "a">>, <<"\t", "a">>}

Leaves == {StrV(x) : x \in Strs} \cup {NumV}

ListsOf(S, n) ==
  {[t |-> "list", s |-> <<>>, keys |-> <<>>, vals |-> f] : f \in UNION {[1..k -> S] : k \in 0..n}}

DictsOf(S, n) ==
  UNION { {[t |-> "dict", s |-> <<>>, keys |-> kk, vals |-> vv] :
             kk \in [1..k -> KeyStrs], vv \in [1..k -> S]} : k \in 1..n }

Level1 == Leaves \cup ListsOf(Leaves, 2) \cup DictsOf(Leaves, 2)

Trees == Level1 \cup ListsOf(Level1, 1) \cup DictsOf(Level1, 1)

Chunks == {QuotEntity, <<";">>, <<"a">>, <<" ">>, <<"&", "q">>, <<DQ>>}

MaxChunks == 3

RECURSIVE Concat(_)
Concat(cs) == IF cs = <<>> THEN <<>> ELSE Head(cs) \o Concat(Tail(cs))

RawStrs == { Concat(cs) : cs \in UNION { [1..k -> Chunks] : k \in 1..MaxChunks } }

StripInit ==
  /\ display_name = <<"A", "B">> /\ alarm_price = <<Fl(100), Fl(100)>>
  /\ InitM /\ InitP /\ InitS

(* json.loads(...) followed by _strip_recursive(data). *)
DoStrip ==
  /\ tree = NumV /\ raw = <<>>
  /\ \E v \in Trees \ {NumV} : tree' = v /\ stripped' = StripRecursive(v)
  /\ UNCHANGED <<mvars, pvars, raw, cleaned>>

(* the cleaning of goods_info_str. *)
DoClean ==
  /\ raw = <<>> /\ tree = NumV
  /\ \E r \in RawStrs : raw' = r /\ cleaned' = CleanGoodsInfo(r)
  /\ UNCHANGED <<mvars, pvars, tree, stripped>>

StripNext == DoStrip \/ DoClean

StripSpec == StripInit /\ [][StripNext]_vars

RECURSIVE AllTrimmed(_)
AllTrimmed(v) ==
  CASE v.t = "str"  -> PyStrip(v.s) = v.s
    [] v.t = "num"  -> TRUE
    [] v.t = "list" -> \A i \in 1..Len(v.vals) : AllTrimmed(v.vals[i])
    [] v.t = "dict" -> /\ \A i \in 1..Len(v.keys) : PyStrip(v.keys[i]) = v.keys[i]
                       /\ \A i \in 1..Len(v.vals) : AllTrimmed(v.vals[i])

RECURSIVE CountQuot(_)
CountQuot(str) ==
  IF str = <<>> THEN 0
  ELSE IF Len(str) >= 6 /\ SubSeq(str, 1, 6) = QuotEntity THEN 1 + CountQuot(SubSeq(str, 7, Len(str)))
  ELSE CountQuot(Tail(str))

CountChar(str, c) == Cardinality({i \in 1..Len(str) : str[i] = c})

(* C6 (as stated): normalization trims every string key and string value  *)
(* at any depth, array elements included, turns each &quot; into a quote  *)
(* and removes every ';'.                                                 *)
C6_Orig ==
  /\ AllTrimmed(stripped)
  /\ CountChar(cleaned, ";") = 0
  /\ CountChar(cleaned, DQ) = CountChar(raw, DQ) + CountQuot(raw)

(***************************************************************************)
(* Properties of the monitor loop.                                         *)
(***************************************************************************)

(* The step of the for loop that samples item i and completes. *)
Samples(i) == pc = "loop" /\ idx = i /\ pc' # "crashed"

(* C1: play_alarm_sound is called exactly once on each step where the     *)
(* item's name enters active_alarms, which happens exactly when the       *)
(* sample is non-empty, its min is <= alarm_price and the name was not in *)
(* active_alarms; no other step notifies.                                 *)
C1_EdgeTriggered ==
  [][ \A i \in 1..NumItems :
        LET edge == Samples(i) /\ display_name[i] \notin active_alarms
                    /\ display_name[i] \in active_alarms'
        IN /\ notifyCount'[i] = notifyCount[i] + (IF edge THEN 1 ELSE 0)
           /\ edge <=> (Samples(i) /\ Len(prices') > 0
                        /\ PyLe(lowest_price'[i], alarm_price[i])
                        /\ display_name[i] \notin active_alarms) ]_vars

C1_Witness ==
  \E i \in 1..NumItems :
     /\ notifyCount[i] = 1 /\ last = i /\ Len(prices) > 0
     /\ display_name[i] \in active_alarms /\ last_updated[i] # Stamp(0)
     /\ last_updated[i] # None

AlarmsMatchPrices ==
  \A i \in 1..NumItems :
     (display_name[i] \in active_alarms)
       <=> (lowest_price[i] # None /\ PyLe(lowest_price[i], alarm_price[i]))

(* C2 (as stated): every item is in active_alarms exactly when its        *)
(* lowest_price is non-null and <= its alarm_price.                       *)
C2_Orig == AlarmsMatchPrices

(* C2 (amended): the same when the display_names are pairwise distinct.   *)
C2_Amended == Distinct => AlarmsMatchPrices

C2_Witness ==
  /\ Distinct
  /\ \E i, j \in 1..NumItems :
       /\ display_name[i] \in active_alarms
       /\ lowest_price[j] # None /\ display_name[j] \notin active_alarms

(* C3: a completed sample with no prices leaves the item's lowest_price,  *)
(* last_updated and alarm membership unchanged and notifies nobody.       *)
C3_EmptySampleKeepsState ==
  [][ \A i \in 1..NumItems :
        (Samples(i) /\ prices' = <<>>) =>
          /\ lowest_price'[i] = lowest_price[i]
          /\ last_updated'[i] = last_updated[i]
          /\ active_alarms' = active_alarms
          /\ notifyCount' = notifyCount ]_vars

C3_Witness ==
  /\ last # 0 /\ prices = <<>>
  /\ display_name[last] \in active_alarms
  /\ lowest_price[last] = Fl(95)

(* C7 (as stated): each loop step samples the next item in order and      *)
(* publishes; after the last item the loop sleeps, then restarts at the   *)
(* first item.                                                            *)
C7_Orig ==
  [][ /\ pc = "loop" =>
           /\ published' = published + 1
           /\ last' = idx
           /\ \/ idx < NumItems /\ pc' = "loop" /\ idx' = idx + 1
              \/ idx = NumItems /\ pc' = "sleep"
      /\ pc = "sleep" => pc' = "loop" /\ idx' = 1 ]_vars

(* C8 (as stated): no per-item failure stops the monitor loop. *)
C8_Orig == pc # "crashed"

(* C9 (as stated): every published Active Alarms panel lists every item   *)
(* in active_alarms with its lowest price.                                *)
C9_Orig ==
  \A i \in 1..NumItems :
     display_name[i] \in active_alarms => <<display_name[i], lowest_price[i]>> \in panel

OwnActive(i) == lowest_price[i] # None /\ PyLe(lowest_price[i], alarm_price[i])

ItemsIndependent ==
  \A i \in 1..NumItems :
     Samples(i) =>
       /\ \A j \in 1..NumItems \ {i} :
             /\ (display_name[j] \in active_alarms') = (display_name[j] \in active_alarms)
             /\ notifyCount'[j] = notifyCount[j]
       /\ (Len(prices') > 0 /\ PyLe(lowest_price'[i], alarm_price[i]) /\ ~OwnActive(i))
            => notifyCount'[i] = notifyCount[i] + 1

(* C10 (as stated): a sample of one item never changes another item's     *)
(* alarm or notifications, and never suppresses its own Inactive->Active  *)
(* notification, for any configuration.                                   *)
C10_Orig == [][ItemsIndependent]_vars

(* C10 (amended): the same for configurations with distinct names. *)
C10_Amended == [][Distinct => ItemsIndependent]_vars

C10_Witness == Distinct /\ notifyCount[1] >= 1 /\ notifyCount[2] >= 1

====
